---- MODULE Spec2Model ----
(***************************************************************************)
(* State-machine model of lib/util/sigquit.c: the SIGQUIT handler and its  *)
(* flag, sigquit_init, tcsetattr_nostop and the exit-time termios_restore, *)
(* together with the parts of the process environment they act on (the     *)
(* terminal's attributes, signal dispositions, the atexit list, the        *)
(* terminal line discipline).                                              *)
(***************************************************************************)
EXTENDS Integers, Sequences, FiniteSets, TLC

(* ---------------- bounds ---------------- *)
\* Size of the control-character table c_cc (NCCS of <termios.h>), scaled down.
NCCS == 3
\* Number of Ctrl+Q bytes typed at the terminal during one run.
MaxKeys == 1

\* Width of size_t in bits, scaled down.
SizeBits == 4

(* ---------------- program constants ---------------- *)
\* 'q' & 0x1f
CtrlQ == 17
\* _POSIX_VDISABLE
POSIX_VDISABLE == 0
\* index of the QUIT character in c_cc
VQUIT == 1
\* the descriptor ttyfd() returns when it finds a terminal
TtyFd == 3

\* Values of a c_cc slot: disabled, ^Q, and ^\ (28) for every other byte.
Bytes == {POSIX_VDISABLE, CtrlQ, 28}
Slots == 0 .. (NCCS - 1)

\* struct termios: the control-character table and the ISIG bit of c_lflag.
Termios == [c_cc : [Slots -> Bytes], isig : BOOLEAN]
\* A static struct termios before anything was stored in it.
ZeroTermios == [c_cc |-> [i \in Slots |-> 0], isig |-> FALSE]

\* Dispositions of SIGTTOU: SIG_DFL, SIG_IGN, a handler of the host.
Dispositions == {"dfl", "ign", "hnd"}

\* A benign set that also takes in every other errno value.
BenignErrnosWide == {"ENOTTY", "ENXIO", "EBADF", "EINVAL", "ENODEV", "EIO"}

\* errno values tcgetattr may fail with; EIO stands for every other code.
BenignErrnos == {"ENOTTY", "ENXIO", "EBADF", "EINVAL", "ENODEV"}
Errnos == BenignErrnos \cup {"EIO"}

VARIABLES
    pc,               \* position of the main path
    ret,              \* return value of sigquit_init: "none", "ok" (0), "fail" (-1)
    sigquit_received, \* the quit flag
    tc_saved,         \* static struct termios tc_saved
    fd_terminal,      \* static int fd_terminal
    tc_new,           \* local of sigquit_init
    caller,           \* who called tcsetattr_nostop
    t,                \* parameter t of tcsetattr_nostop
    oldsig,           \* local of tcsetattr_nostop
    rc,               \* local of tcsetattr_nostop
    sigres,           \* outcome of the signal() call at line 74
    ns_ret,           \* value returned by the last tcsetattr_nostop call
    diag,             \* last diagnostic given to warnp/warn
    term,             \* live attributes of the terminal
    term0,            \* attributes of the terminal when the process started
    fd_open,          \* is the descriptor from ttyfd() open
    sigquit_disp,     \* disposition of SIGQUIT: "dfl" or "handler"
    sigttou,          \* disposition of SIGTTOU
    sigttou_entry,    \* disposition of SIGTTOU when tcsetattr_nostop was entered
    atexit_list,      \* functions registered with atexit
    exit_todo,        \* atexit functions exit() has still to run
    exit_path,        \* "none", "exit", "_exit", "signal"
    pending,          \* a SIGQUIT is pending for the process
    hpc,              \* "none" or "running": is sigquit_handler on the stack
    delivered,        \* phases of the main path in which the handler was invoked
    job,              \* "fg", "bg": process group relative to the terminal; "notty"
    stopped,          \* the process was stopped by SIGTTOU
    nkeys,            \* Ctrl+Q bytes typed so far
    tty_out,          \* what the line discipline did with the last Ctrl+Q byte
    stdio_tty,        \* is one of stdin, stdout, stderr a terminal
    captured,         \* tcgetattr has filled tc_saved
    failed_call,      \* the last call of sigquit_init that failed, with its errno
    nrestore,         \* calls of termios_restore so far
    nclose,           \* calls of close(fd_terminal) so far
    im_pc,            \* position inside imalloc
    nrec,             \* parameter nrec of imalloc
    reclen,           \* parameter reclen of imalloc
    im_ret,           \* what imalloc returns: "none" yet, "NULL", "block"
    im_errno,         \* errno as imalloc leaves it
    malloc_req        \* size handed to malloc, -1 when malloc was not called

vars == <<pc, ret, sigquit_received, tc_saved, fd_terminal, tc_new, caller, t,
          oldsig, rc, sigres, ns_ret, diag, term, term0, fd_open, sigquit_disp,
          sigttou, sigttou_entry, atexit_list, exit_todo, exit_path, pending,
          hpc, delivered, job, stopped, nkeys, tty_out, stdio_tty, captured,
          failed_call, nrestore, nclose, im_pc, nrec, reclen, im_ret,
          im_errno, malloc_req>>

\* State of this module's statics and of the locals of its functions.
modvars == <<tc_saved, fd_terminal, tc_new, caller, t, oldsig, rc, sigres,
             ns_ret, diag>>
\* State of the terminal and of the process outside the quit flag.
envvars == <<term, term0, fd_open, sigquit_disp, sigttou, sigttou_entry,
             atexit_list, exit_todo, exit_path, job, stopped>>
\* State of the keyboard side of the terminal.
keyvars == <<nkeys, tty_out>>
\* The standard streams, and what has happened so far on the main path.
auxvars == <<stdio_tty, captured, failed_call, nrestore, nclose>>
\* Parameters, position and results of imalloc.
imvars == <<im_pc, nrec, reclen, im_ret, im_errno, malloc_req>>

\* No call has failed.
NoFailure == [call |-> "none", errno |-> "none"]

\* imalloc is not being called.
ImallocIdle ==
    /\ im_pc = "idle"
    /\ nrec = 0
    /\ reclen = 1
    /\ im_ret = "none"
    /\ im_errno = "none"
    /\ malloc_req = -1

Init ==
    /\ ImallocIdle
    /\ stdio_tty \in BOOLEAN
    /\ captured = FALSE
    /\ failed_call = NoFailure
    /\ nrestore = 0
    /\ nclose = 0
    /\ pc = "start"
    /\ ret = "none"
    /\ sigquit_received = 0
    /\ tc_saved = ZeroTermios
    /\ fd_terminal = 0
    /\ tc_new = ZeroTermios
    /\ caller = "none"
    /\ t = ZeroTermios
    /\ oldsig = "unset"
    /\ rc = 0
    /\ sigres = "ok"
    /\ ns_ret = 0
    /\ diag = "none"
    /\ term \in Termios
    /\ term0 = term
    /\ fd_open = FALSE
    /\ sigquit_disp = "dfl"
    /\ sigttou \in Dispositions
    /\ sigttou_entry = sigttou
    /\ atexit_list = <<>>
    /\ exit_todo = <<>>
    /\ exit_path = "none"
    /\ pending = FALSE
    /\ hpc = "none"
    /\ delivered = {}
    /\ job \in {"fg", "bg", "notty"}
    /\ stopped = FALSE
    /\ nkeys = 0
    /\ tty_out = "none"

\* The main path runs when the process is alive, not stopped and not in the handler.
MainRuns == hpc = "none" /\ ~stopped /\ pc # "exited"

\* Phase of the main path, as seen by a signal that arrives now.
Phase ==
    IF exit_path # "none" THEN "exit"
    ELSE IF pc = "active" THEN "active"
    ELSE IF pc = "failed" THEN "failed"
    ELSE IF pc = "start" THEN "uninit"
    ELSE "init"

(* ---------------- sigquit_handler ---------------- *)
\* A handler that returns without writing the flag.
sigquit_handler_nowrite ==
    /\ hpc = "running"
    /\ hpc' = "none"
    /\ UNCHANGED <<pc, ret, sigquit_received, pending, delivered>>
    /\ UNCHANGED modvars /\ UNCHANGED envvars /\ UNCHANGED keyvars
    /\ UNCHANGED auxvars /\ UNCHANGED imvars

\* A handler that also resets the disposition of SIGTTOU.
sigquit_handler_signal ==
    /\ hpc = "running"
    /\ sigquit_received' = 1
    /\ hpc' = "none"
    /\ sigttou' = "dfl"
    /\ UNCHANGED <<pc, ret, pending, delivered>>
    /\ UNCHANGED modvars
    /\ UNCHANGED <<term, term0, fd_open, sigquit_disp, sigttou_entry,
                   atexit_list, exit_todo, exit_path, job, stopped>>
    /\ UNCHANGED keyvars
    /\ UNCHANGED auxvars /\ UNCHANGED imvars

\* line 34: sigquit_received = 1, then the handler returns.
sigquit_handler ==
    /\ hpc = "running"
    /\ sigquit_received' = 1
    /\ hpc' = "none"
    /\ UNCHANGED <<pc, ret, pending, delivered>>
    /\ UNCHANGED modvars /\ UNCHANGED envvars /\ UNCHANGED keyvars
    /\ UNCHANGED auxvars /\ UNCHANGED imvars

(* ---------------- signals: the environment ---------------- *)
\* kill(pid, SIGQUIT) from anywhere: the signal becomes pending.
SendSigquit ==
    /\ pc # "exited"
    /\ ~pending
    /\ pending' = TRUE
    /\ UNCHANGED <<pc, ret, sigquit_received, hpc, delivered>>
    /\ UNCHANGED modvars /\ UNCHANGED envvars /\ UNCHANGED keyvars
    /\ UNCHANGED auxvars /\ UNCHANGED imvars

\* A pending SIGQUIT is delivered: the installed handler is invoked (SIGQUIT
\* itself is blocked while it runs, sa_flags = 0), or the default action
\* terminates the process.
DeliverSigquit ==
    /\ pending
    /\ hpc = "none"
    /\ ~stopped
    /\ pc # "exited"
    /\ pending' = FALSE
    /\ IF sigquit_disp = "handler"
       THEN /\ hpc' = "running"
            /\ delivered' = delivered \cup {Phase}
            /\ UNCHANGED <<pc, exit_path>>
       ELSE /\ pc' = "exited"
            /\ exit_path' = "signal"
            /\ UNCHANGED <<hpc, delivered>>
    /\ UNCHANGED <<ret, sigquit_received, term, term0, fd_open, sigquit_disp,
                   sigttou, sigttou_entry, atexit_list, exit_todo, job, stopped>>
    /\ UNCHANGED modvars /\ UNCHANGED keyvars
    /\ UNCHANGED auxvars /\ UNCHANGED imvars

(* ---------------- the terminal's line discipline ---------------- *)
\* What the line discipline may do with a received byte b under attributes
\* tc: perform the function of a special character bound to b ("sigquit" for
\* the QUIT character, recognised only while ISIG is set; "other" for any
\* other slot), or pass the byte on as input.  When several special
\* characters have the same value the function performed is undefined, so
\* every one of them is a possible outcome.
KeyOutcomes(tc, b) ==
    LET owners == {i \in Slots : tc.c_cc[i] = b /\ b # POSIX_VDISABLE
                                  /\ (i = VQUIT => tc.isig)}
    IN  IF owners = {} THEN {"input"}
        ELSE {IF i = VQUIT THEN "sigquit" ELSE "other" : i \in owners}

\* The byte ^Q is written through the terminal while the program is in its
\* steady state.  A generated SIGQUIT goes to the foreground process group of
\* the terminal.  (At any other time the only effect a key can have on the
\* process is a pending SIGQUIT, which SendSigquit covers.)
TypeCtrlQ ==
    /\ pc = "active"
    /\ nkeys < MaxKeys
    /\ nkeys' = nkeys + 1
    /\ \E o \in KeyOutcomes(term, CtrlQ) :
         /\ tty_out' = o
         /\ pending' = (pending \/ (o = "sigquit" /\ job = "fg"))
    /\ UNCHANGED <<pc, ret, sigquit_received, hpc, delivered>>
    /\ UNCHANGED modvars /\ UNCHANGED envvars
    /\ UNCHANGED auxvars /\ UNCHANGED imvars

(* ---------------- sigquit_init ---------------- *)
\* errno values a failing tcsetattr is given here: one of the codes that
\* tcgetattr's classification calls benign, and one other.
TcsetattrErrnos == {"ENOTTY", "EIO"}

\* The record of a failed call.  Calls made by tcsetattr_nostop are recorded
\* while it works for sigquit_init; the exit-time call's result is discarded.
Failure(call, errno) ==
    IF call \in {"signal_ignore", "tcsetattr", "signal_restore"}
       /\ caller # "sigquit_init"
    THEN failed_call
    ELSE [call |-> call, errno |-> errno]

\* ttyfd(): a descriptor on the controlling terminal, opened directly, or
\* else on a standard stream that is a terminal, or else -1.
ttyfd ==
    IF job # "notty" \/ stdio_tty THEN {TtyFd} ELSE {-1}

\* line 97: sigquit_received = 0.
sigquit_init_clear ==
    /\ MainRuns
    /\ pc = "start"
    /\ sigquit_received' = 0
    /\ pc' = "sigaction"
    /\ UNCHANGED <<ret, pending, hpc, delivered>>
    /\ UNCHANGED modvars /\ UNCHANGED envvars /\ UNCHANGED keyvars
    /\ UNCHANGED auxvars /\ UNCHANGED imvars

\* lines 100-106: sigaction(SIGQUIT, &sa, NULL) installs the handler or fails.
sigquit_init_sigaction ==
    /\ MainRuns
    /\ pc = "sigaction"
    /\ \E ok \in BOOLEAN :
         IF ok
         THEN /\ sigquit_disp' = "handler"
              /\ pc' = "ttyfd"
              /\ UNCHANGED <<ret, diag, failed_call>>
         ELSE /\ diag' = "sigaction(SIGQUIT)"
              /\ failed_call' = [call |-> "sigaction", errno |-> "EINVAL"]
              /\ pc' = "failed"
              /\ ret' = "fail"
              /\ UNCHANGED sigquit_disp
    /\ UNCHANGED <<sigquit_received, pending, hpc, delivered>>
    /\ UNCHANGED <<tc_saved, fd_terminal, tc_new, caller, t, oldsig, rc,
                   sigres, ns_ret>>
    /\ UNCHANGED <<term, term0, fd_open, sigttou, sigttou_entry, atexit_list,
                   exit_todo, exit_path, job, stopped>>
    /\ UNCHANGED keyvars
    /\ UNCHANGED <<stdio_tty, captured, nrestore, nclose>> /\ UNCHANGED imvars

\* A sigquit_init that zeroes the flag after installing the handler.
sigquit_init_ttyfd_clears ==
    /\ MainRuns
    /\ pc = "ttyfd"
    /\ sigquit_received' = 0
    /\ \E fd \in ttyfd :
         /\ fd_terminal' = fd
         /\ IF fd = -1
            THEN /\ pc' = "active"
                 /\ ret' = "ok"
                 /\ UNCHANGED fd_open
            ELSE /\ pc' = "tcgetattr"
                 /\ fd_open' = TRUE
                 /\ UNCHANGED ret
    /\ UNCHANGED <<pending, hpc, delivered>>
    /\ UNCHANGED <<tc_saved, tc_new, caller, t, oldsig, rc, sigres, ns_ret, diag>>
    /\ UNCHANGED <<term, term0, sigquit_disp, sigttou, sigttou_entry,
                   atexit_list, exit_todo, exit_path, job, stopped>>
    /\ UNCHANGED keyvars
    /\ UNCHANGED auxvars /\ UNCHANGED imvars

\* A sigquit_init that registers termios_restore as soon as it has a descriptor.
sigquit_init_ttyfd_registers ==
    /\ MainRuns
    /\ pc = "ttyfd"
    /\ \E fd \in ttyfd :
         /\ fd_terminal' = fd
         /\ IF fd = -1
            THEN /\ pc' = "active"
                 /\ ret' = "ok"
                 /\ UNCHANGED <<fd_open, atexit_list>>
            ELSE /\ pc' = "tcgetattr"
                 /\ fd_open' = TRUE
                 /\ atexit_list' = Append(atexit_list, "termios_restore")
                 /\ UNCHANGED ret
    /\ UNCHANGED <<sigquit_received, pending, hpc, delivered>>
    /\ UNCHANGED <<tc_saved, tc_new, caller, t, oldsig, rc, sigres, ns_ret, diag>>
    /\ UNCHANGED <<term, term0, sigquit_disp, sigttou, sigttou_entry,
                   exit_todo, exit_path, job, stopped>>
    /\ UNCHANGED keyvars
    /\ UNCHANGED auxvars /\ UNCHANGED imvars

\* A sigquit_init that goes on to tcgetattr although ttyfd() returned -1.
sigquit_init_ttyfd_ignores ==
    /\ MainRuns
    /\ pc = "ttyfd"
    /\ \E fd \in ttyfd :
         /\ fd_terminal' = fd
         /\ IF fd = -1
            THEN /\ pc' = "tcgetattr"
                 /\ UNCHANGED <<ret, fd_open>>
            ELSE /\ pc' = "tcgetattr"
                 /\ fd_open' = TRUE
                 /\ UNCHANGED ret
    /\ UNCHANGED <<sigquit_received, pending, hpc, delivered>>
    /\ UNCHANGED <<tc_saved, tc_new, caller, t, oldsig, rc, sigres, ns_ret, diag>>
    /\ UNCHANGED <<term, term0, sigquit_disp, sigttou, sigttou_entry,
                   atexit_list, exit_todo, exit_path, job, stopped>>
    /\ UNCHANGED keyvars
    /\ UNCHANGED auxvars /\ UNCHANGED imvars

\* lines 109-116: fd_terminal = ttyfd(); -1 means no terminal, which is success.
sigquit_init_ttyfd ==
    /\ MainRuns
    /\ pc = "ttyfd"
    /\ \E fd \in ttyfd :
         /\ fd_terminal' = fd
         /\ IF fd = -1
            THEN /\ pc' = "active"
                 /\ ret' = "ok"
                 /\ UNCHANGED fd_open
            ELSE /\ pc' = "tcgetattr"
                 /\ fd_open' = TRUE
                 /\ UNCHANGED ret
    /\ UNCHANGED <<sigquit_received, pending, hpc, delivered>>
    /\ UNCHANGED <<tc_saved, tc_new, caller, t, oldsig, rc, sigres, ns_ret, diag>>
    /\ UNCHANGED <<term, term0, sigquit_disp, sigttou, sigttou_entry,
                   atexit_list, exit_todo, exit_path, job, stopped>>
    /\ UNCHANGED keyvars
    /\ UNCHANGED auxvars /\ UNCHANGED imvars

\* A sigquit_init that goes on to register and remap after a benign tcgetattr failure.
sigquit_init_tcgetattr_goes_on ==
    /\ MainRuns
    /\ pc = "tcgetattr"
    /\ \/ /\ tc_saved' = term
          /\ captured' = TRUE
          /\ UNCHANGED failed_call
          /\ pc' = "atexit"
          /\ UNCHANGED <<ret, diag>>
       \/ \E errno \in Errnos :
            /\ UNCHANGED <<tc_saved, captured>>
            /\ failed_call' = [call |-> "tcgetattr", errno |-> errno]
            /\ IF errno \in BenignErrnos
               THEN /\ pc' = "atexit"
                    /\ UNCHANGED <<ret, diag>>
               ELSE /\ diag' = "tcgetattr(stdin)"
                    /\ pc' = "failed"
                    /\ ret' = "fail"
    /\ UNCHANGED <<sigquit_received, pending, hpc, delivered>>
    /\ UNCHANGED <<fd_terminal, tc_new, caller, t, oldsig, rc, sigres, ns_ret>>
    /\ UNCHANGED envvars /\ UNCHANGED keyvars
    /\ UNCHANGED <<stdio_tty, nrestore, nclose>> /\ UNCHANGED imvars

\* lines 119-135: tcgetattr(fd_terminal, &tc_saved) fills the snapshot, or
\* fails with an errno that is benign (success, no terminal) or fatal.
sigquit_init_tcgetattr ==
    /\ MainRuns
    /\ pc = "tcgetattr"
    /\ \/ /\ tc_saved' = term
          /\ captured' = TRUE
          /\ UNCHANGED failed_call
          /\ pc' = "atexit"
          /\ UNCHANGED <<ret, diag>>
       \/ \E errno \in Errnos :
            /\ UNCHANGED <<tc_saved, captured>>
            /\ failed_call' = [call |-> "tcgetattr", errno |-> errno]
            /\ IF errno \in BenignErrnos
               THEN /\ pc' = "active"
                    /\ ret' = "ok"
                    /\ UNCHANGED diag
               ELSE /\ diag' = "tcgetattr(stdin)"
                    /\ pc' = "failed"
                    /\ ret' = "fail"
    /\ UNCHANGED <<sigquit_received, pending, hpc, delivered>>
    /\ UNCHANGED <<fd_terminal, tc_new, caller, t, oldsig, rc, sigres, ns_ret>>
    /\ UNCHANGED envvars /\ UNCHANGED keyvars
    /\ UNCHANGED <<stdio_tty, nrestore, nclose>> /\ UNCHANGED imvars

\* A sigquit_init that warns about a failed atexit but goes on to remap.
sigquit_init_atexit_goes_on ==
    /\ MainRuns
    /\ pc = "atexit"
    /\ \E ok \in BOOLEAN :
         IF ok
         THEN /\ atexit_list' = Append(atexit_list, "termios_restore")
              /\ UNCHANGED <<diag, failed_call>>
         ELSE /\ diag' = "atexit"
              /\ failed_call' = [call |-> "atexit", errno |-> "ENOMEM"]
              /\ UNCHANGED atexit_list
    /\ pc' = "adjust"
    /\ UNCHANGED <<ret, sigquit_received, pending, hpc, delivered>>
    /\ UNCHANGED <<tc_saved, fd_terminal, tc_new, caller, t, oldsig, rc,
                   sigres, ns_ret>>
    /\ UNCHANGED <<term, term0, fd_open, sigquit_disp, sigttou, sigttou_entry,
                   exit_todo, exit_path, job, stopped>>
    /\ UNCHANGED keyvars
    /\ UNCHANGED <<stdio_tty, captured, nrestore, nclose>> /\ UNCHANGED imvars

\* A sigquit_init that registers termios_restore twice.
sigquit_init_atexit_twice ==
    /\ MainRuns
    /\ pc = "atexit"
    /\ \E ok \in BOOLEAN :
         IF ok
         THEN /\ atexit_list' = atexit_list \o <<"termios_restore", "termios_restore">>
              /\ pc' = "adjust"
              /\ UNCHANGED <<ret, diag, failed_call>>
         ELSE /\ diag' = "atexit"
              /\ failed_call' = [call |-> "atexit", errno |-> "ENOMEM"]
              /\ pc' = "failed"
              /\ ret' = "fail"
              /\ UNCHANGED atexit_list
    /\ UNCHANGED <<sigquit_received, pending, hpc, delivered>>
    /\ UNCHANGED <<tc_saved, fd_terminal, tc_new, caller, t, oldsig, rc,
                   sigres, ns_ret>>
    /\ UNCHANGED <<term, term0, fd_open, sigquit_disp, sigttou, sigttou_entry,
                   exit_todo, exit_path, job, stopped>>
    /\ UNCHANGED keyvars
    /\ UNCHANGED <<stdio_tty, captured, nrestore, nclose>> /\ UNCHANGED imvars

\* A sigquit_init that does not register termios_restore.
sigquit_init_atexit_forgets ==
    /\ MainRuns
    /\ pc = "atexit"
    /\ \E ok \in BOOLEAN :
         IF ok
         THEN /\ UNCHANGED atexit_list
              /\ pc' = "adjust"
              /\ UNCHANGED <<ret, diag, failed_call>>
         ELSE /\ diag' = "atexit"
              /\ failed_call' = [call |-> "atexit", errno |-> "ENOMEM"]
              /\ pc' = "failed"
              /\ ret' = "fail"
              /\ UNCHANGED atexit_list
    /\ UNCHANGED <<sigquit_received, pending, hpc, delivered>>
    /\ UNCHANGED <<tc_saved, fd_terminal, tc_new, caller, t, oldsig, rc,
                   sigres, ns_ret>>
    /\ UNCHANGED <<term, term0, fd_open, sigquit_disp, sigttou, sigttou_entry,
                   exit_todo, exit_path, job, stopped>>
    /\ UNCHANGED keyvars
    /\ UNCHANGED <<stdio_tty, captured, nrestore, nclose>> /\ UNCHANGED imvars

\* lines 138-141: atexit(termios_restore) registers the restore or fails.
sigquit_init_atexit ==
    /\ MainRuns
    /\ pc = "atexit"
    /\ \E ok \in BOOLEAN :
         IF ok
         THEN /\ atexit_list' = Append(atexit_list, "termios_restore")
              /\ pc' = "adjust"
              /\ UNCHANGED <<ret, diag, failed_call>>
         ELSE /\ diag' = "atexit"
              /\ failed_call' = [call |-> "atexit", errno |-> "ENOMEM"]
              /\ pc' = "failed"
              /\ ret' = "fail"
              /\ UNCHANGED atexit_list
    /\ UNCHANGED <<sigquit_received, pending, hpc, delivered>>
    /\ UNCHANGED <<tc_saved, fd_terminal, tc_new, caller, t, oldsig, rc,
                   sigres, ns_ret>>
    /\ UNCHANGED <<term, term0, fd_open, sigquit_disp, sigttou, sigttou_entry,
                   exit_todo, exit_path, job, stopped>>
    /\ UNCHANGED keyvars
    /\ UNCHANGED <<stdio_tty, captured, nrestore, nclose>> /\ UNCHANGED imvars

\* lines 147-150: the loop over c_cc[0 .. NCCS-1], from index i on.
RECURSIVE RemoveCtrlQ(_, _)
RemoveCtrlQ(cc, i) ==
    IF i >= NCCS THEN cc
    ELSE RemoveCtrlQ(IF cc[i] = CtrlQ
                     THEN [cc EXCEPT ![i] = POSIX_VDISABLE]
                     ELSE cc, i + 1)

\* An adjuster that sets VQUIT before the loop that removes ^Q.
AdjustSetFirst(saved) ==
    LET copy == saved
        bound == [copy EXCEPT !.c_cc[VQUIT] = CtrlQ]
    IN  [bound EXCEPT !.c_cc = RemoveCtrlQ(bound.c_cc, 0)]

\* An adjuster without the loop that removes ^Q.
AdjustNoRemove(saved) ==
    [saved EXCEPT !.c_cc[VQUIT] = CtrlQ]

\* lines 144-153: copy the snapshot, remove ^Q everywhere, then set VQUIT.
Adjust(saved) ==
    LET copy == saved
        cleared == [copy EXCEPT !.c_cc = RemoveCtrlQ(copy.c_cc, 0)]
    IN  [cleared EXCEPT !.c_cc[VQUIT] = CtrlQ]

\* lines 144-156: build tc_new and call tcsetattr_nostop(fd_terminal, TCSANOW, &tc_new).
sigquit_init_adjust ==
    /\ MainRuns
    /\ pc = "adjust"
    /\ tc_new' = Adjust(tc_saved)
    /\ t' = tc_new'
    /\ caller' = "sigquit_init"
    /\ sigttou_entry' = sigttou
    /\ pc' = "ns_ign"
    /\ UNCHANGED <<ret, sigquit_received, pending, hpc, delivered>>
    /\ UNCHANGED <<tc_saved, fd_terminal, oldsig, rc, sigres, ns_ret, diag>>
    /\ UNCHANGED <<term, term0, fd_open, sigquit_disp, sigttou, atexit_list,
                   exit_todo, exit_path, job, stopped>>
    /\ UNCHANGED keyvars
    /\ UNCHANGED auxvars /\ UNCHANGED imvars

(* ---------------- tcsetattr_nostop ---------------- *)
\* A tcsetattr_nostop that reads the disposition but does not ignore SIGTTOU.
tcsetattr_nostop_no_ignore ==
    /\ MainRuns
    /\ pc = "ns_ign"
    /\ \E ok \in BOOLEAN :
         IF ok
         THEN /\ oldsig' = sigttou
              /\ pc' = "ns_set"
              /\ UNCHANGED failed_call
         ELSE /\ oldsig' = "err"
              /\ failed_call' = Failure("signal_ignore", "EINVAL")
              /\ pc' = "ns_ret"
    /\ UNCHANGED <<ret, sigquit_received, pending, hpc, delivered>>
    /\ UNCHANGED <<tc_saved, fd_terminal, tc_new, caller, t, rc, sigres,
                   ns_ret, diag>>
    /\ UNCHANGED envvars /\ UNCHANGED keyvars
    /\ UNCHANGED <<stdio_tty, captured, nrestore, nclose>> /\ UNCHANGED imvars

\* line 71: oldsig = signal(SIGTTOU, SIG_IGN); SIG_ERR leads to err0.
tcsetattr_nostop_ignore ==
    /\ MainRuns
    /\ pc = "ns_ign"
    /\ \E ok \in BOOLEAN :
         IF ok
         THEN /\ oldsig' = sigttou
              /\ sigttou' = "ign"
              /\ pc' = "ns_set"
              /\ UNCHANGED failed_call
         ELSE /\ oldsig' = "err"
              /\ failed_call' = Failure("signal_ignore", "EINVAL")
              /\ pc' = "ns_ret"
              /\ UNCHANGED sigttou
    /\ UNCHANGED <<ret, sigquit_received, pending, hpc, delivered>>
    /\ UNCHANGED <<tc_saved, fd_terminal, tc_new, caller, t, rc, sigres,
                   ns_ret, diag>>
    /\ UNCHANGED <<term, term0, fd_open, sigquit_disp, sigttou_entry,
                   atexit_list, exit_todo, exit_path, job, stopped>>
    /\ UNCHANGED keyvars
    /\ UNCHANGED <<stdio_tty, captured, nrestore, nclose>> /\ UNCHANGED imvars

\* line 73: rc = tcsetattr(fd, action, t).  A process of a background process
\* group that neither ignores nor blocks SIGTTOU is sent SIGTTOU: the default
\* action stops it, a handler interrupts the call.
tcsetattr_nostop_set ==
    /\ MainRuns
    /\ pc = "ns_set"
    /\ IF job = "bg" /\ sigttou = "dfl"
       THEN /\ stopped' = TRUE
            /\ UNCHANGED <<pc, rc, term, failed_call>>
       ELSE /\ \E ok \in BOOLEAN :
                 /\ (job = "bg" /\ sigttou = "hnd") => ~ok
                 /\ IF ok
                    THEN /\ term' = t
                         /\ rc' = 0
                         /\ UNCHANGED failed_call
                    ELSE /\ rc' = -1
                         /\ \E e \in TcsetattrErrnos :
                              failed_call' = Failure("tcsetattr", e)
                         /\ UNCHANGED term
            /\ pc' = "ns_restore"
            /\ UNCHANGED stopped
    /\ UNCHANGED <<ret, sigquit_received, pending, hpc, delivered>>
    /\ UNCHANGED <<tc_saved, fd_terminal, tc_new, caller, t, oldsig, sigres,
                   ns_ret, diag>>
    /\ UNCHANGED <<term0, fd_open, sigquit_disp, sigttou, sigttou_entry,
                   atexit_list, exit_todo, exit_path, job>>
    /\ UNCHANGED keyvars
    /\ UNCHANGED <<stdio_tty, captured, nrestore, nclose>> /\ UNCHANGED imvars

\* A tcsetattr_nostop that re-installs SIG_DFL instead of oldsig.
tcsetattr_nostop_restore_dfl ==
    /\ MainRuns
    /\ pc = "ns_restore"
    /\ \E ok \in BOOLEAN :
         IF ok
         THEN /\ sigttou' = "dfl"
              /\ sigres' = "ok"
              /\ UNCHANGED failed_call
         ELSE /\ sigres' = "err"
              /\ failed_call' = Failure("signal_restore", "EINVAL")
              /\ UNCHANGED sigttou
    /\ pc' = "ns_ret"
    /\ UNCHANGED <<ret, sigquit_received, pending, hpc, delivered>>
    /\ UNCHANGED <<tc_saved, fd_terminal, tc_new, caller, t, oldsig, rc,
                   ns_ret, diag>>
    /\ UNCHANGED <<term, term0, fd_open, sigquit_disp, sigttou_entry,
                   atexit_list, exit_todo, exit_path, job, stopped>>
    /\ UNCHANGED keyvars
    /\ UNCHANGED <<stdio_tty, captured, nrestore, nclose>> /\ UNCHANGED imvars

\* line 74: signal(SIGTTOU, oldsig); SIG_ERR leads to err0.
tcsetattr_nostop_restore ==
    /\ MainRuns
    /\ pc = "ns_restore"
    /\ \E ok \in BOOLEAN :
         IF ok
         THEN /\ sigttou' = oldsig
              /\ sigres' = "ok"
              /\ UNCHANGED failed_call
         ELSE /\ sigres' = "err"
              /\ failed_call' = Failure("signal_restore", "EINVAL")
              /\ UNCHANGED sigttou
    /\ pc' = "ns_ret"
    /\ UNCHANGED <<ret, sigquit_received, pending, hpc, delivered>>
    /\ UNCHANGED <<tc_saved, fd_terminal, tc_new, caller, t, oldsig, rc,
                   ns_ret, diag>>
    /\ UNCHANGED <<term, term0, fd_open, sigquit_disp, sigttou_entry,
                   atexit_list, exit_todo, exit_path, job, stopped>>
    /\ UNCHANGED keyvars
    /\ UNCHANGED <<stdio_tty, captured, nrestore, nclose>> /\ UNCHANGED imvars

\* lines 75-82: the value tcsetattr_nostop returns: -1 by err0, rc otherwise.
ReturnValue ==
    IF oldsig = "err" \/ sigres = "err" THEN -1 ELSE rc

\* lines 78, 82: return to the caller.
tcsetattr_nostop_return ==
    /\ MainRuns
    /\ pc = "ns_ret"
    /\ ns_ret' = ReturnValue
    /\ pc' = IF caller = "sigquit_init" THEN "init_check" ELSE "close"
    /\ UNCHANGED <<ret, sigquit_received, pending, hpc, delivered>>
    /\ UNCHANGED <<tc_saved, fd_terminal, tc_new, caller, t, oldsig, rc,
                   sigres, diag>>
    /\ UNCHANGED envvars /\ UNCHANGED keyvars
    /\ UNCHANGED auxvars /\ UNCHANGED imvars

\* A sigquit_init that does not look at the result of tcsetattr_nostop.
sigquit_init_check_ignores ==
    /\ MainRuns
    /\ pc = "init_check"
    /\ IF FALSE
       THEN /\ diag' = "tcsetattr(stdin)"
            /\ pc' = "failed"
            /\ ret' = "fail"
       ELSE /\ pc' = "active"
            /\ ret' = "ok"
            /\ UNCHANGED diag
    /\ UNCHANGED <<sigquit_received, pending, hpc, delivered>>
    /\ UNCHANGED <<tc_saved, fd_terminal, tc_new, caller, t, oldsig, rc,
                   sigres, ns_ret>>
    /\ UNCHANGED envvars /\ UNCHANGED keyvars
    /\ UNCHANGED auxvars /\ UNCHANGED imvars

\* A sigquit_init that zeroes the flag again before it returns.
sigquit_init_check_clears ==
    /\ MainRuns
    /\ pc = "init_check"
    /\ IF ns_ret # 0
       THEN /\ diag' = "tcsetattr(stdin)"
            /\ pc' = "failed"
            /\ ret' = "fail"
       ELSE /\ pc' = "active"
            /\ ret' = "ok"
            /\ UNCHANGED diag
    /\ sigquit_received' = 0
    /\ UNCHANGED <<pending, hpc, delivered>>
    /\ UNCHANGED <<tc_saved, fd_terminal, tc_new, caller, t, oldsig, rc,
                   sigres, ns_ret>>
    /\ UNCHANGED envvars /\ UNCHANGED keyvars
    /\ UNCHANGED auxvars /\ UNCHANGED imvars

\* lines 156-167: a non-zero result of tcsetattr_nostop is a failure of
\* sigquit_init, zero is success.
sigquit_init_check ==
    /\ MainRuns
    /\ pc = "init_check"
    /\ IF ns_ret # 0
       THEN /\ diag' = "tcsetattr(stdin)"
            /\ pc' = "failed"
            /\ ret' = "fail"
       ELSE /\ pc' = "active"
            /\ ret' = "ok"
            /\ UNCHANGED diag
    /\ UNCHANGED <<sigquit_received, pending, hpc, delivered>>
    /\ UNCHANGED <<tc_saved, fd_terminal, tc_new, caller, t, oldsig, rc,
                   sigres, ns_ret>>
    /\ UNCHANGED envvars /\ UNCHANGED keyvars
    /\ UNCHANGED auxvars /\ UNCHANGED imvars

(* ---------------- process exit and termios_restore ---------------- *)
\* The host calls exit(3), or returns from main, after sigquit_init returned.
HostExit ==
    /\ MainRuns
    /\ pc \in {"active", "failed"}
    /\ exit_path' = "exit"
    /\ exit_todo' = atexit_list
    /\ pc' = "exit_loop"
    /\ UNCHANGED <<ret, sigquit_received, pending, hpc, delivered>>
    /\ UNCHANGED modvars
    /\ UNCHANGED <<term, term0, fd_open, sigquit_disp, sigttou, sigttou_entry,
                   atexit_list, job, stopped>>
    /\ UNCHANGED keyvars
    /\ UNCHANGED auxvars /\ UNCHANGED imvars

\* The host calls _exit(2): no atexit function runs.
HostUnderscoreExit ==
    /\ MainRuns
    /\ pc \in {"active", "failed"}
    /\ exit_path' = "_exit"
    /\ pc' = "exited"
    /\ UNCHANGED <<ret, sigquit_received, pending, hpc, delivered>>
    /\ UNCHANGED modvars
    /\ UNCHANGED <<term, term0, fd_open, sigquit_disp, sigttou, sigttou_entry,
                   atexit_list, exit_todo, job, stopped>>
    /\ UNCHANGED keyvars
    /\ UNCHANGED auxvars /\ UNCHANGED imvars

\* A termios_restore that re-applies the adjusted copy.
RestoreArgNew == tc_new

\* line 50: the attribute set termios_restore hands to tcsetattr_nostop.
RestoreArg == tc_saved

\* exit(3) runs the registered functions, last registered first.
\* line 50: termios_restore calls tcsetattr_nostop(fd_terminal, TCSANOW, &tc_saved).
termios_restore ==
    /\ MainRuns
    /\ pc = "exit_loop"
    /\ exit_todo # <<>>
    /\ exit_todo' = SubSeq(exit_todo, 1, Len(exit_todo) - 1)
    /\ nrestore' = nrestore + 1
    /\ t' = RestoreArg
    /\ caller' = "termios_restore"
    /\ sigttou_entry' = sigttou
    /\ pc' = "ns_ign"
    /\ UNCHANGED <<ret, sigquit_received, pending, hpc, delivered>>
    /\ UNCHANGED <<tc_saved, fd_terminal, tc_new, oldsig, rc, sigres, ns_ret,
                   diag>>
    /\ UNCHANGED <<term, term0, fd_open, sigquit_disp, sigttou, atexit_list,
                   exit_path, job, stopped>>
    /\ UNCHANGED keyvars
    /\ UNCHANGED <<stdio_tty, captured, failed_call, nclose>> /\ UNCHANGED imvars

\* A termios_restore that does not close the descriptor.
termios_restore_no_close ==
    /\ MainRuns
    /\ pc = "close"
    /\ UNCHANGED <<fd_open, nclose>>
    /\ pc' = "exit_loop"
    /\ UNCHANGED <<ret, sigquit_received, pending, hpc, delivered>>
    /\ UNCHANGED modvars
    /\ UNCHANGED <<term, term0, sigquit_disp, sigttou, sigttou_entry,
                   atexit_list, exit_todo, exit_path, job, stopped>>
    /\ UNCHANGED keyvars
    /\ UNCHANGED <<stdio_tty, captured, failed_call, nrestore>> /\ UNCHANGED imvars

\* line 58: close(fd_terminal); termios_restore returns to exit(3).
termios_restore_close ==
    /\ MainRuns
    /\ pc = "close"
    /\ fd_open' = FALSE
    /\ nclose' = nclose + 1
    /\ pc' = "exit_loop"
    /\ UNCHANGED <<ret, sigquit_received, pending, hpc, delivered>>
    /\ UNCHANGED modvars
    /\ UNCHANGED <<term, term0, sigquit_disp, sigttou, sigttou_entry,
                   atexit_list, exit_todo, exit_path, job, stopped>>
    /\ UNCHANGED keyvars
    /\ UNCHANGED <<stdio_tty, captured, failed_call, nrestore>> /\ UNCHANGED imvars

\* A signal whose action is to terminate the process (SIGKILL, or any signal
\* left at its default action) arrives while the host runs after
\* sigquit_init has returned: the process ends on the spot and no atexit
\* function runs.
KillProcess ==
    /\ pc \in {"active", "failed"}
    /\ pc' = "exited"
    /\ exit_path' = "signal"
    /\ UNCHANGED <<ret, sigquit_received, pending, hpc, delivered>>
    /\ UNCHANGED modvars
    /\ UNCHANGED <<term, term0, fd_open, sigquit_disp, sigttou, sigttou_entry,
                   atexit_list, exit_todo, job, stopped>>
    /\ UNCHANGED keyvars
    /\ UNCHANGED auxvars /\ UNCHANGED imvars

\* exit(3) has run every registered function: the process is gone.
ExitDone ==
    /\ MainRuns
    /\ pc = "exit_loop"
    /\ exit_todo = <<>>
    /\ pc' = "exited"
    /\ UNCHANGED <<ret, sigquit_received, pending, hpc, delivered>>
    /\ UNCHANGED modvars /\ UNCHANGED envvars /\ UNCHANGED keyvars
    /\ UNCHANGED auxvars /\ UNCHANGED imvars

Next ==
    \/ sigquit_handler
    \/ SendSigquit
    \/ DeliverSigquit
    \/ TypeCtrlQ
    \/ sigquit_init_clear
    \/ sigquit_init_sigaction
    \/ sigquit_init_ttyfd
    \/ sigquit_init_tcgetattr
    \/ sigquit_init_atexit
    \/ sigquit_init_adjust
    \/ tcsetattr_nostop_ignore
    \/ tcsetattr_nostop_set
    \/ tcsetattr_nostop_restore
    \/ tcsetattr_nostop_return
    \/ sigquit_init_check
    \/ HostExit
    \/ HostUnderscoreExit
    \/ termios_restore
    \/ termios_restore_close
    \/ ExitDone
    \/ KillProcess

Spec == Init /\ [][Next]_vars

(* ---------------- imalloc ---------------- *)
\* SIZE_MAX of <stdint.h> for a size_t of SizeBits bits.
SIZE_MAX == (2 ^ SizeBits) - 1

\* Every variable of the process around sigquit.c.
sigvars == <<pc, ret, sigquit_received, pending, hpc, delivered, modvars,
             envvars, keyvars, auxvars>>

\* An overflow test that multiplies first, in size_t arithmetic.
OverflowsWrapped(n, r) == ((n * r) % (SIZE_MAX + 1)) > SIZE_MAX

\* line 193: nrec > SIZE_MAX / reclen, the division being that of size_t.
Overflows(n, r) == n > (SIZE_MAX \div r)

\* lines 188-197: the checks of imalloc up to the call of malloc; the
\* argument of malloc is computed in size_t arithmetic.
imalloc ==
    /\ im_pc = "call"
    /\ reclen # 0
    /\ IF nrec = 0
       THEN /\ im_ret' = "NULL"
            /\ im_pc' = "done"
            /\ UNCHANGED <<im_errno, malloc_req>>
       ELSE IF Overflows(nrec, reclen)
       THEN /\ im_errno' = "ENOMEM"
            /\ im_ret' = "NULL"
            /\ im_pc' = "done"
            /\ UNCHANGED malloc_req
       ELSE /\ malloc_req' = (nrec * reclen) % (SIZE_MAX + 1)
            /\ im_pc' = "malloc"
            /\ UNCHANGED <<im_ret, im_errno>>
    /\ UNCHANGED <<nrec, reclen>>
    /\ UNCHANGED sigvars

\* line 197: malloc returns a block of the requested size, or NULL with
\* errno set to ENOMEM; imalloc returns what malloc returned.
imalloc_malloc ==
    /\ im_pc = "malloc"
    /\ \E ok \in BOOLEAN :
         IF ok
         THEN /\ im_ret' = "block"
              /\ UNCHANGED im_errno
         ELSE /\ im_ret' = "NULL"
              /\ im_errno' = "ENOMEM"
    /\ im_pc' = "done"
    /\ UNCHANGED <<nrec, reclen, malloc_req>>
    /\ UNCHANGED sigvars

\* A call imalloc(nrec, reclen) with reclen != 0 is about to be made; the
\* rest of the process is at rest.
InitImalloc ==
    /\ im_pc = "call"
    /\ nrec \in 0 .. SIZE_MAX
    /\ reclen \in 1 .. SIZE_MAX
    /\ im_ret = "none"
    /\ im_errno = "none"
    /\ malloc_req = -1
    /\ stdio_tty = FALSE /\ captured = FALSE /\ failed_call = NoFailure
    /\ nrestore = 0 /\ nclose = 0
    /\ pc = "start" /\ ret = "none" /\ sigquit_received = 0
    /\ tc_saved = ZeroTermios /\ fd_terminal = 0 /\ tc_new = ZeroTermios
    /\ caller = "none" /\ t = ZeroTermios /\ oldsig = "unset" /\ rc = 0
    /\ sigres = "ok" /\ ns_ret = 0 /\ diag = "none"
    /\ term = ZeroTermios /\ term0 = ZeroTermios /\ fd_open = FALSE
    /\ sigquit_disp = "dfl" /\ sigttou = "dfl" /\ sigttou_entry = "dfl"
    /\ atexit_list = <<>> /\ exit_todo = <<>> /\ exit_path = "none"
    /\ pending = FALSE /\ hpc = "none" /\ delivered = {}
    /\ job = "notty" /\ stopped = FALSE /\ nkeys = 0 /\ tty_out = "none"

NextImalloc ==
    \/ imalloc
    \/ imalloc_malloc

SpecImalloc == InitImalloc /\ [][NextImalloc]_vars

TypeOK ==
    /\ pc \in {"start", "sigaction", "ttyfd", "tcgetattr", "atexit", "adjust",
               "ns_ign", "ns_set", "ns_restore", "ns_ret", "init_check",
               "active", "failed", "exit_loop", "close", "exited"}
    /\ ret \in {"none", "ok", "fail"}
    /\ sigquit_received \in {0, 1}
    /\ tc_saved \in Termios /\ tc_new \in Termios /\ t \in Termios
    /\ term \in Termios /\ term0 \in Termios
    /\ fd_terminal \in {0, -1, TtyFd}
    /\ oldsig \in Dispositions \cup {"unset", "err"}
    /\ rc \in {0, -1} /\ ns_ret \in {0, -1}
    /\ sigttou \in Dispositions
    /\ nkeys \in 0 .. MaxKeys
    /\ stdio_tty \in BOOLEAN /\ captured \in BOOLEAN
    /\ failed_call \in [call : {"none", "sigaction", "tcgetattr", "atexit",
                                "signal_ignore", "tcsetattr", "signal_restore"},
                        errno : Errnos \cup {"none", "ENOMEM"}]
    /\ nrestore \in 0 .. 1 /\ nclose \in 0 .. 1

(* ======================= claims ======================= *)

\* sigquit_init returned success after remapping a real terminal.
ActiveWithTerminal == ret = "ok" /\ atexit_list # <<>>

\* The exit-time call of tcsetattr_nostop reached tcsetattr and it succeeded.
RestoreSucceeded == caller = "termios_restore" /\ oldsig # "err" /\ rc = 0

\* C1: after a process that initialised successfully on a real terminal has
\* exited normally and the exit-time tcsetattr succeeded, the terminal's
\* attributes equal the snapshot tc_saved, which is what the terminal had
\* before sigquit_init changed it.
C1_RestoredSnapshot ==
    (pc = "exited" /\ exit_path = "exit" /\ ActiveWithTerminal /\ RestoreSucceeded)
        => (term = tc_saved /\ tc_saved = term0)

C1_Witness ==
    /\ pc = "exited" /\ exit_path = "exit"
    /\ ActiveWithTerminal /\ RestoreSucceeded
    /\ tc_new # tc_saved
    /\ term = term0

\* C2: the terminal's attributes change only after termios_restore was
\* registered, and when atexit failed they never change and sigquit_init
\* returns failure.
C2_RegisterBeforeMutate ==
    /\ [][term' # term => atexit_list # <<>>]_vars
    /\ [](diag = "atexit" => (term = term0 /\ ret = "fail" /\ atexit_list = <<>>))

C2_Witness ==
    /\ diag = "atexit"
    /\ pc = "exited" /\ exit_path = "exit"
    /\ term = term0 /\ Adjust(tc_saved) # term0

\* C3: when sigquit_init has returned -1 the live terminal attributes are
\* those the terminal had before the call.
C3_FailureLeavesTerminal ==
    pc = "failed" => term = term0

\* C4: once sigquit_init has returned success, a SIGQUIT delivered to the
\* process leaves the flag non-zero as soon as the handler has returned.
C4_DeliveredSetsFlag ==
    ("active" \in delivered /\ hpc = "none") => sigquit_received = 1

C4_Witness ==
    /\ delivered = {"active"} /\ hpc = "none"
    /\ pc = "active" /\ fd_terminal = -1
    /\ sigquit_received = 1

\* C5: the flag never goes from non-zero back to zero.
C5_FlagMonotonic ==
    [][sigquit_received = 1 => sigquit_received' = 1]_vars

C5_Witness ==
    /\ "init" \in delivered
    /\ pc = "exited" /\ exit_path = "exit" /\ ActiveWithTerminal
    /\ sigquit_received = 1

\* C6: a step of the handler (its invocation and its body) writes the flag
\* and leaves fd_terminal, tc_saved, the live attributes, the disposition of
\* SIGTTOU and the atexit list as they were, wherever the main path stands.
C6_HandlerFrame ==
    [][(hpc = "running" \/ hpc' = "running")
         => /\ UNCHANGED <<fd_terminal, tc_saved, term, sigttou, atexit_list>>
            /\ (hpc' = "none" => sigquit_received' = 1)]_vars

C6_Witness ==
    /\ {"init", "active", "exit"} \subseteq delivered
    /\ pc = "exited" /\ RestoreSucceeded
    /\ sigquit_received = 1

\* C7 as stated: when tcsetattr_nostop is about to return, the disposition
\* of SIGTTOU is the one it had when the call was entered.
C7_DispositionRestoredAlways ==
    pc = "ns_ret" => sigttou = sigttou_entry

\* C7 amended: the disposition at return is the one at entry, whether
\* tcsetattr succeeded or failed, unless the re-installing signal() call
\* itself failed; then it is still "ignore" and the call returns -1.
C7_DispositionRestored ==
    pc = "ns_ret" =>
        IF oldsig # "err" /\ sigres = "err"
        THEN sigttou = "ign" /\ ReturnValue = -1
        ELSE sigttou = sigttou_entry

C7_Witness ==
    /\ pc = "ns_ret"
    /\ oldsig = "hnd" /\ sigres = "ok" /\ rc = -1
    /\ sigttou = "hnd"

\* C8: the terminal's attributes change only inside tcsetattr_nostop while
\* SIGTTOU is ignored, and the process is never stopped by the terminal.
C8_MutateWhileIgnoring ==
    /\ [][term' # term => (pc = "ns_set" /\ sigttou = "ign")]_vars
    /\ []~stopped

C8_Witness ==
    /\ job = "bg" /\ oldsig = "dfl"
    /\ pc = "exited" /\ exit_path = "exit"
    /\ ActiveWithTerminal /\ RestoreSucceeded
    /\ tc_new # tc_saved /\ term = tc_saved

\* The relation between a snapshot s and its adjusted copy n.
Remapped(s, n) ==
    /\ n.c_cc[VQUIT] = CtrlQ
    /\ \A i \in Slots \ {VQUIT} :
         /\ s.c_cc[i] = CtrlQ => n.c_cc[i] = POSIX_VDISABLE
         /\ s.c_cc[i] # CtrlQ => n.c_cc[i] = s.c_cc[i]
    /\ Cardinality({i \in Slots : n.c_cc[i] = CtrlQ}) = 1
    /\ n.isig = s.isig

\* C9: the adjusted copy built from the snapshot binds ^Q to VQUIT, disables
\* every other slot that held ^Q, keeps every other slot and the flags; and
\* it is what the terminal has once sigquit_init succeeded.
C9_Adjusted ==
    /\ caller = "sigquit_init" => Remapped(tc_saved, tc_new)
    /\ (ActiveWithTerminal /\ exit_path = "none") => term = tc_new

C9_Witness ==
    /\ pc = "active" /\ ActiveWithTerminal
    /\ tc_saved.c_cc[0] = CtrlQ /\ tc_saved.c_cc[VQUIT] = 28
    /\ tc_saved.c_cc[2] = 28
    /\ term.c_cc[0] = POSIX_VDISABLE /\ term.c_cc[VQUIT] = CtrlQ
    /\ term.c_cc[2] = 28

\* C10 as stated: in the steady state with a terminal, every ^Q written
\* through the terminal raises SIGQUIT for the process.
C10_KeyRaisesAlways ==
    [][(pc = "active" /\ ActiveWithTerminal /\ nkeys' > nkeys) => pending']_vars

\* C10 amended: it does when the snapshot had ISIG set and the process is in
\* the foreground process group of the terminal.
C10_KeyRaises ==
    [][(pc = "active" /\ ActiveWithTerminal /\ nkeys' > nkeys
          /\ tc_saved.isig /\ job = "fg")
         => (tty_out' = "sigquit" /\ pending')]_vars

C10_Witness ==
    /\ pc = "active" /\ ActiveWithTerminal
    /\ tc_saved.isig /\ job = "fg"
    /\ tc_saved.c_cc[0] = CtrlQ /\ tc_saved.c_cc[VQUIT] # CtrlQ
    /\ nkeys = 1 /\ tty_out = "sigquit" /\ pending

\* sigquit_init reached its attribute-set step (it called tcsetattr_nostop).
ReachedSet == caller # "none"

\* C11 as stated: termios_restore runs only in a process in which
\* sigquit_init returned success on a real terminal.
C11_RestoreOnlyAfterSuccess ==
    nrestore > 0 => ActiveWithTerminal

\* C11 amended: termios_restore runs only in a process in which it was
\* registered after a captured snapshot; sigquit_init then either returned
\* success, or returned failure because its attribute-set step failed.  It
\* never runs after a failure of sigaction, tcgetattr or atexit.
C11_RestoreOnlyIfRegistered ==
    nrestore > 0 =>
        /\ captured /\ atexit_list # <<>> /\ exit_path # "none"
        /\ \/ ret = "ok"
           \/ /\ ret = "fail"
              /\ failed_call.call \in {"signal_ignore", "tcsetattr",
                                       "signal_restore"}

C11_Witness ==
    /\ nrestore = 1 /\ pc = "exited" /\ exit_path = "exit"
    /\ ret = "fail" /\ failed_call.call = "tcsetattr"
    /\ term = term0

\* C12: whenever termios_restore runs, tcgetattr on fd_terminal had
\* succeeded: the attribute set it hands to tcsetattr_nostop is the
\* captured snapshot of the terminal, and fd_terminal is a descriptor.
C12_RestoreHasSnapshot ==
    (nrestore > 0 \/ caller = "termios_restore") =>
        /\ captured
        /\ fd_terminal = TtyFd
        /\ tc_saved = term0
        /\ t = tc_saved

C12_Witness ==
    /\ nrestore = 1 /\ pc = "exited" /\ RestoreSucceeded
    /\ captured /\ tc_saved # ZeroTermios /\ tc_saved # tc_new

\* C13: after one successful sigquit_init on a real terminal the restore is
\* registered once, has not run before exit, never runs twice, and has run
\* once when the process has terminated normally.
C13_RestoreOnceAtExit ==
    ActiveWithTerminal =>
        /\ Len(atexit_list) = 1
        /\ nrestore <= 1
        /\ exit_path = "none" => nrestore = 0
        /\ (pc = "exited" /\ exit_path = "exit") => nrestore = 1

C13_Witness ==
    /\ ActiveWithTerminal /\ pc = "exited" /\ exit_path = "exit"
    /\ nrestore = 1 /\ nclose = 1

\* C14 as stated: once the remapped attributes were applied, the restore has
\* run exactly once when the process is gone, whatever the exit path.
C14_RestoreOnEveryExit ==
    (pc = "exited" /\ ActiveWithTerminal) => nrestore = 1

\* C14 amended: the restore runs exactly once when the process leaves
\* through exit(3) (or a return from main); it does not run when the process
\* leaves through _exit or is terminated by a signal, and then the remapped
\* attributes stay on the terminal.
C14_RestoreOnExitOnly ==
    (pc = "exited" /\ ReachedSet) =>
        /\ nrestore = IF exit_path = "exit" THEN 1 ELSE 0
        /\ (exit_path # "exit" /\ ret = "ok") => term = tc_new

C14_Witness ==
    /\ pc = "exited" /\ exit_path = "signal"
    /\ ActiveWithTerminal /\ nrestore = 0
    /\ term = tc_new /\ term # term0

\* C15 as stated: a descriptor returned by ttyfd has been closed exactly once
\* when the process has exited.
C15_ClosedOnEveryPath ==
    (pc = "exited" /\ exit_path = "exit" /\ fd_terminal = TtyFd) => nclose = 1

\* C15 amended: the descriptor is closed by nothing but termios_restore,
\* during exit and at most once; it is closed exactly once when the restore
\* was registered and the process leaves through exit(3), and it is never
\* closed by this module when tcgetattr or atexit failed or the process
\* leaves another way.
C15_ClosedOnlyByRestore ==
    /\ [][nclose' # nclose =>
            (pc = "close" /\ exit_path = "exit" /\ nclose = 0 /\ fd_open
             /\ ~fd_open' /\ nrestore = 1)]_vars
    /\ []((pc = "exited" /\ fd_terminal = TtyFd) =>
            nclose = IF exit_path = "exit" /\ atexit_list # <<>> THEN 1 ELSE 0)
    /\ [](fd_open <=> (fd_terminal = TtyFd /\ nclose = 0))

C15_Witness ==
    /\ pc = "exited" /\ exit_path = "exit"
    /\ fd_terminal = TtyFd /\ failed_call.call = "tcgetattr"
    /\ ret = "ok" /\ nclose = 0 /\ fd_open

\* The failure recorded is one of the calls of the attribute-set step.
SetStepFailed ==
    failed_call.call \in {"signal_ignore", "tcsetattr", "signal_restore"}

\* The failure recorded is a tcgetattr failure with an errno outside the
\* five "not a terminal" codes.
QueryFailedFatally ==
    /\ failed_call.call = "tcgetattr"
    /\ failed_call.errno \notin {"ENOTTY", "ENXIO", "EBADF", "EINVAL", "ENODEV"}

\* C16 as stated: sigquit_init returns failure exactly when sigaction
\* failed, tcgetattr failed fatally, atexit failed, or the attribute-set
\* step failed with an error outside the benign set (a failure of one of
\* the signal() calls being counted as such an error).
C16_FailureCasesBenignSet ==
    ret # "none" =>
        (ret = "fail" <=>
            \/ failed_call.call \in {"sigaction", "atexit",
                                     "signal_ignore", "signal_restore"}
            \/ QueryFailedFatally
            \/ /\ failed_call.call = "tcsetattr"
               /\ failed_call.errno \notin {"ENOTTY", "ENXIO", "EBADF",
                                            "EINVAL", "ENODEV"})

\* C16 amended: sigquit_init returns failure exactly when sigaction failed,
\* tcgetattr failed fatally, atexit failed, or the attribute-set step failed
\* with any error at all; it returns success otherwise.
C16_FailureCases ==
    ret # "none" =>
        /\ ret \in {"ok", "fail"}
        /\ ret = "fail" <=>
            \/ failed_call.call \in {"sigaction", "atexit"}
            \/ QueryFailedFatally
            \/ SetStepFailed

C16_Witness ==
    /\ pc = "failed" /\ ret = "fail"
    /\ failed_call = [call |-> "tcsetattr", errno |-> "ENOTTY"]
    /\ sigres = "ok" /\ term = term0

\* sigquit_init came back with the handler installed and without having
\* registered a restore or called tcsetattr_nostop.
NoTerminalSuccess ==
    /\ ret = "ok"
    /\ sigquit_disp = "handler"
    /\ atexit_list = <<>>
    /\ ~ReachedSet
    /\ term = term0

\* C17: when ttyfd() returned -1, or tcgetattr failed with ENOTTY, ENXIO,
\* EBADF, EINVAL or ENODEV, sigquit_init returns success with the handler
\* installed, no restore registered and no attribute-set call made; when
\* tcgetattr failed with another errno it returns failure.
C17_BenignNoTerminal ==
    /\ (ret # "none" /\ fd_terminal = -1) => NoTerminalSuccess
    /\ (failed_call.call = "tcgetattr"
          /\ failed_call.errno \in {"ENOTTY", "ENXIO", "EBADF", "EINVAL",
                                    "ENODEV"})
         => NoTerminalSuccess
    /\ QueryFailedFatally => (ret = "fail" /\ ~ReachedSet /\ atexit_list = <<>>)

C17_Witness ==
    /\ pc = "active"
    /\ failed_call = [call |-> "tcgetattr", errno |-> "ENODEV"]
    /\ fd_terminal = TtyFd
    /\ NoTerminalSuccess

C19_Imalloc ==
    im_pc \in {"malloc", "done"} =>
        IF nrec = 0
        THEN /\ im_pc = "done" /\ im_ret = "NULL"
             /\ malloc_req = -1 /\ im_errno = "none"
        ELSE IF nrec * reclen > SIZE_MAX
        THEN /\ im_pc = "done" /\ im_ret = "NULL"
             /\ malloc_req = -1 /\ im_errno = "ENOMEM"
        ELSE /\ malloc_req = nrec * reclen
             /\ malloc_req <= SIZE_MAX
             /\ im_pc = "done" =>
                  \/ im_ret = "block" /\ im_errno = "none"
                  \/ im_ret = "NULL" /\ im_errno = "ENOMEM"

C19_Witness ==
    /\ im_pc = "done" /\ im_ret = "block"
    /\ nrec > 1 /\ reclen > 1
    /\ nrec * reclen <= SIZE_MAX /\ (nrec + 1) * reclen > SIZE_MAX
    /\ malloc_req = nrec * reclen

\* C20: the flag is cleared while SIGQUIT still has its default action;
\* once the handler is installed only the handler writes the flag, and it
\* writes 1; so when a SIGQUIT was delivered while sigquit_init was
\* running, the flag is 1 when sigquit_init has returned, with success or
\* with failure, and from then on.
C20_NoSignalLost ==
    /\ [][(sigquit_disp = "handler" /\ sigquit_received' # sigquit_received)
            => (hpc = "running" /\ sigquit_received' = 1)]_vars
    /\ [](pc = "start" => (sigquit_disp = "dfl" /\ sigquit_received = 0))
    /\ []((("init" \in delivered) /\ ret # "none") => sigquit_received = 1)

C20_Witness ==
    /\ "init" \in delivered
    /\ pc = "failed" /\ ret = "fail" /\ failed_call.call = "atexit"
    /\ sigquit_received = 1

====
